---- MODULE Spec2Model ----
(***************************************************************************)
(* Model of main() in app.py: one Streamlit script run per request.  The   *)
(* request walks through input validation, the temp-file upload, the three *)
(* stages (aggregation, enrichment, synthesis), rendering and clean-up.    *)
(* Every call that can raise is a nondeterministic choice between its      *)
(* return and an exception carrying a message.                             *)
(***************************************************************************)
EXTENDS Integers, Sequences, FiniteSets

VARIABLES generate_button,   \* st.button(...) of this run
          executive_role,    \* st.selectbox("Executive Role", executive_roles)
          openai_key,        \* st.text_input("OpenAI API Key")
          tavily_key,        \* st.text_input("Tavily API Key")
          uploaded_file,     \* st.file_uploader(...)
          pc,                \* position inside main()
          fs,                \* temp files that exist on disk
          tmp_name,          \* tmp_file.name of this run (NoPath: none)
          csv_path,          \* local csv_path (NoPath: not in locals())
          components,        \* DataProcessor / ExecutiveReportGenerator / TavilySearchTool built
          sales_data,        \* local sales_data
          industry_research, \* local industry_research
          executive_report,  \* local executive_report
          shown,             \* st.info/warning/success/error calls, in order
          calls,             \* calls main() made, in order, with how each ended
          enrichment,        \* how the enrichment stage of this run ended
          rendered,          \* what display_* put on the page
          raised,            \* exception that reached the outer except
          outcome,           \* how the run ended
          runs               \* script runs so far

vars == <<generate_button, executive_role, openai_key, tavily_key, uploaded_file, pc, fs,
          tmp_name, csv_path, components, sales_data, industry_research,
          executive_report, shown, calls, enrichment, rendered, raised,
          outcome, runs>>

inputs == <<generate_button, executive_role, openai_key, tavily_key,
            uploaded_file>>
locals == <<sales_data, industry_research, executive_report>>

---------------------------------------------------------------------------
(* Bounds *)
MaxRuns == 2        \* script runs in one behaviour
MaxSnippets == 1    \* snippets per research category

---------------------------------------------------------------------------
(* Values *)
COMPANY_NAME == "Apple Inc."

None == [tag |-> "None"]

\* no temp file / csv_path not bound in locals()
NoPath == 0

executive_roles == {"CEO", "CFO", "COO", "CTO", "CMO", "Head of Sales",
                    "Head of Product", "VP Marketing", "VP Operations",
                    "Chief Strategy Officer"}

OpenAIKeys == {"", "sk-openai"}
TavilyKeys == {"", "tvly-key"}

\* uploaded_file: None, or an upload whose bytes do / do not decode as UTF-8
UploadedFiles == {None, [utf8 |-> TRUE], [utf8 |-> FALSE]}

\* str(e) of the exceptions the collaborators raise
ErrMsgs == {"unexpected failure", "timed out"}

Snippets == {"snippet"}
SnippetSeqs == UNION {[1..n -> Snippets] : n \in 0..MaxSnippets}

\* IndustryResearch values
Bundles == [company_trends : SnippetSeqs, product_trends : SnippetSeqs,
            industry_news : SnippetSeqs, competitive_landscape : SnippetSeqs]

\* IndustryResearch(company_trends=[], product_trends=[], industry_news=[],
\*                  competitive_landscape=[])
EmptyResearch == [company_trends |-> <<>>, product_trends |-> <<>>,
                  industry_news |-> <<>>, competitive_landscape |-> <<>>]

\* what search_company_trends may hand back: a bundle, or no usable
\* (falsy) value
SearchReturns == Bundles \cup {None}

\* sales_data.product_summary.keys() of the summaries process_csv_data returns
SalesSummaries == {[products |-> {"iPhone"}], [products |-> {"iPhone", "MacBook"}]}

Reports == {[executive_summary |-> "summary"]}

\* Python truthiness of a str and of an object reference
TruthyStr(s) == s # ""
TruthyObj(o) == o # None

\* variant: the handler shows a fixed text and drops str(e)
ErrorText_Generic(e) == "Error generating report"

\* f"Error generating report: {str(e)}"
ErrorText(e) == "Error generating report: " \o e
\* f"Industry research failed: {str(e)}"
ResearchFailedText(e) == "Industry research failed: " \o e

Msg(kind, text) == [kind |-> kind, text |-> text]
NothingRendered == [summary |-> "none", report |-> "none"]

---------------------------------------------------------------------------
(* Initial state: a script run with the widgets' values *)
FreshRun ==
    /\ pc = "button"
    /\ tmp_name = NoPath
    /\ csv_path = NoPath
    /\ components = {}
    /\ sales_data = None
    /\ industry_research = None
    /\ executive_report = None
    /\ shown = <<>>
    /\ calls = <<>>
    /\ enrichment = "not_started"
    /\ rendered = NothingRendered
    /\ raised = None
    /\ outcome = "running"

Init ==
    /\ generate_button \in BOOLEAN
    /\ executive_role \in executive_roles
    /\ openai_key \in OpenAIKeys
    /\ tavily_key \in TavilyKeys
    /\ uploaded_file \in UploadedFiles
    /\ fs = {}
    /\ runs = 1
    /\ FreshRun

\* an exception propagates to the outer except clause
Raise(step, e) ==
    /\ pc' = "except"
    /\ raised' = [at |-> step, msg |-> e]

---------------------------------------------------------------------------
(* if generate_button: *)
CheckButton ==
    /\ pc = "button"
    /\ IF generate_button
         THEN pc' = "validate" /\ outcome' = outcome
         ELSE pc' = "done" /\ outcome' = "idle"
    /\ UNCHANGED <<inputs, fs, tmp_name, csv_path, components, locals, shown,
                   calls, enrichment, rendered, raised, runs>>

\* variant: the two input checks in the opposite order
ValidateInputs_FileFirst ==
    /\ pc = "validate"
    /\ IF ~TruthyObj(uploaded_file)
         THEN /\ shown' = Append(shown, Msg("error", "Please upload a CSV file"))
              /\ pc' = "done"
              /\ outcome' = "rejected"
         ELSE IF ~TruthyStr(openai_key)
         THEN /\ shown' = Append(shown, Msg("error", "Please provide OpenAI API key"))
              /\ pc' = "done"
              /\ outcome' = "rejected"
         ELSE /\ pc' = "tmpfile"
              /\ UNCHANGED <<shown, outcome>>
    /\ UNCHANGED <<inputs, fs, tmp_name, csv_path, components, locals, calls,
                   enrichment, rendered, raised, runs>>

(* Validate inputs *)
ValidateInputs ==
    /\ pc = "validate"
    /\ IF ~TruthyStr(openai_key)
         THEN /\ shown' = Append(shown, Msg("error", "Please provide OpenAI API key"))
              /\ pc' = "done"
              /\ outcome' = "rejected"
         ELSE IF ~TruthyObj(uploaded_file)
         THEN /\ shown' = Append(shown, Msg("error", "Please upload a CSV file"))
              /\ pc' = "done"
              /\ outcome' = "rejected"
         ELSE /\ pc' = "tmpfile"
              /\ UNCHANGED <<shown, outcome>>
    /\ UNCHANGED <<inputs, fs, tmp_name, csv_path, components, locals, calls, enrichment,
                   rendered, raised, runs>>

(* with tempfile.NamedTemporaryFile(mode='w', suffix='.csv', delete=False) *)
CreateTempFile ==
    /\ pc = "tmpfile"
    /\ \/ /\ tmp_name' = runs
          /\ fs' = fs \cup {runs}
          /\ pc' = "write"
          /\ UNCHANGED raised
       \/ /\ \E e \in ErrMsgs : Raise("create_temp_file", e)
          /\ UNCHANGED <<tmp_name, fs>>
    /\ UNCHANGED <<inputs, csv_path, components, locals, shown, calls, enrichment,
                   rendered, outcome, runs>>

(* tmp_file.write(uploaded_file.getvalue().decode('utf-8'));               *)
(* csv_path = tmp_file.name -- leaving the with block closes the file and, *)
(* with delete=False, keeps it on disk                                     *)
WriteUpload ==
    /\ pc = "write"
    /\ IF ~uploaded_file.utf8
         THEN /\ Raise("write_upload", "'utf-8' codec can't decode byte")
              /\ UNCHANGED csv_path
         ELSE \/ /\ csv_path' = tmp_name
                 /\ pc' = "init"
                 /\ UNCHANGED raised
              \/ /\ \E e \in ErrMsgs : Raise("write_upload", e)
                 /\ UNCHANGED csv_path
    /\ UNCHANGED <<inputs, fs, tmp_name, components, locals, shown, calls, enrichment,
                   rendered, outcome, runs>>

(* data_processor = DataProcessor()                                        *)
(* report_generator = ExecutiveReportGenerator(openai_api_key=openai_key)  *)
InitComponents ==
    /\ pc = "init"
    /\ \/ /\ components' = {"DataProcessor", "ExecutiveReportGenerator"}
          /\ pc' = "process"
          /\ UNCHANGED raised
       \/ /\ components' = {"DataProcessor"}
          /\ \E e \in ErrMsgs : Raise("init_components", e)
       \/ /\ components' = {}
          /\ \E e \in ErrMsgs : Raise("init_components", e)
    /\ UNCHANGED <<inputs, fs, tmp_name, csv_path, locals, shown, calls, enrichment,
                   rendered, outcome, runs>>

\* variant: an aggregation error is swallowed and the run goes on with an
\* empty summary
ProcessCsv_SwallowsError ==
    /\ pc = "process"
    /\ shown' = Append(shown, Msg("info", "Processing sales data..."))
    /\ \/ /\ sales_data' \in SalesSummaries
          /\ calls' = Append(calls, [op |-> "process_csv_data", result |-> "returned"])
       \/ /\ sales_data' = [products |-> {}]
          /\ calls' = Append(calls, [op |-> "process_csv_data", result |-> "raised"])
    /\ pc' = "show_summary"
    /\ UNCHANGED <<inputs, fs, tmp_name, csv_path, components,
                   industry_research, executive_report, enrichment, rendered,
                   raised, outcome, runs>>

(* st.info(...); sales_data = data_processor.process_csv_data(csv_path) *)
ProcessCsv ==
    /\ pc = "process"
    /\ shown' = Append(shown, Msg("info", "Processing sales data..."))
    /\ \/ /\ sales_data' \in SalesSummaries
          /\ calls' = Append(calls, [op |-> "process_csv_data", result |-> "returned"])
          /\ pc' = "show_summary"
          /\ UNCHANGED raised
       \/ /\ \E e \in ErrMsgs : Raise("process_csv_data", e)
          /\ calls' = Append(calls, [op |-> "process_csv_data", result |-> "raised"])
          /\ UNCHANGED sales_data
    /\ UNCHANGED <<inputs, fs, tmp_name, csv_path, components,
                   industry_research, executive_report, enrichment, rendered,
                   outcome, runs>>

(* display_sales_summary(sales_data, COMPANY_NAME): the st.* calls reach   *)
(* the page one by one, so an exception part-way leaves what was drawn     *)
DisplaySalesSummary ==
    /\ pc = "show_summary"
    /\ \/ /\ rendered' = [rendered EXCEPT !.summary = "full"]
          /\ calls' = Append(calls, [op |-> "display_sales_summary", result |-> "returned"])
          /\ pc' = "enrich"
          /\ UNCHANGED raised
       \/ /\ \E part \in {"none", "partial"} :
                rendered' = [rendered EXCEPT !.summary = part]
          /\ calls' = Append(calls, [op |-> "display_sales_summary", result |-> "raised"])
          /\ \E e \in ErrMsgs : Raise("display_sales_summary", e)
    /\ UNCHANGED <<inputs, fs, tmp_name, csv_path, components, locals, shown,
                   enrichment, outcome, runs>>

\* except Exception as e: st.warning(f"Industry research failed: {str(e)}")
\*                        st.info("Continuing with sales data analysis only...")
ResearchFailed(e) ==
    <<Msg("warning", ResearchFailedText(e)),
      Msg("info", "Continuing with sales data analysis only...")>>

(* industry_research = None; if tavily_key: ... else: st.warning(...) *)
SkipResearch ==
    /\ pc = "enrich"
    /\ ~TruthyStr(tavily_key)
    /\ industry_research' = None
    /\ shown' = Append(shown, Msg("warning",
                   "Tavily API key not provided. Skipping industry research."))
    /\ enrichment' = "skipped"
    /\ pc' = "prepare"
    /\ UNCHANGED <<inputs, fs, tmp_name, csv_path, components, sales_data,
                   executive_report, calls, rendered, raised, outcome, runs>>

(* industry_research = None; st.info(...);                                 *)
(* try: search_tool = TavilySearchTool(api_key=tavily_key)                 *)
ConstructSearchTool ==
    /\ pc = "enrich"
    /\ TruthyStr(tavily_key)
    /\ industry_research' = None
    /\ \/ /\ components' = components \cup {"TavilySearchTool"}
          /\ shown' = Append(shown, Msg("info", "Researching industry trends..."))
          /\ pc' = "search"
          /\ UNCHANGED enrichment
       \/ /\ \E e \in ErrMsgs :
                shown' = Append(shown, Msg("info", "Researching industry trends..."))
                            \o ResearchFailed(e)
          /\ enrichment' = "failed"
          /\ pc' = "prepare"
          /\ UNCHANGED components
    /\ UNCHANGED <<inputs, fs, tmp_name, csv_path, sales_data,
                   executive_report, calls, rendered, raised, outcome, runs>>

(* products = list(sales_data.product_summary.keys())                      *)
(* industry_research = search_tool.search_company_trends(COMPANY_NAME,     *)
(*                                                       products)         *)
(* st.success("Industry research completed!")                              *)
SearchCompanyTrends ==
    /\ pc = "search"
    /\ \/ \E r \in SearchReturns :
            /\ industry_research' = r
            /\ calls' = Append(calls, [op |-> "search_company_trends",
                                       company |-> COMPANY_NAME,
                                       products |-> sales_data.products,
                                       result |-> "returned", value |-> r])
            /\ shown' = Append(shown, Msg("success", "Industry research completed!"))
            /\ enrichment' = "returned"
       \/ \E e \in ErrMsgs :
            /\ calls' = Append(calls, [op |-> "search_company_trends",
                                       company |-> COMPANY_NAME,
                                       products |-> sales_data.products,
                                       result |-> "raised", value |-> None])
            /\ shown' = shown \o ResearchFailed(e)
            /\ enrichment' = "failed"
            /\ UNCHANGED industry_research
    /\ pc' = "prepare"
    /\ UNCHANGED <<inputs, fs, tmp_name, csv_path, components, sales_data,
                   executive_report, rendered, raised, outcome, runs>>

\* variant: the empty bundle is never substituted
PrepareResearch_NoFallback ==
    /\ pc = "prepare"
    /\ shown' = Append(shown, Msg("info", "Generating executive summary..."))
    /\ pc' = "generate"
    /\ UNCHANGED <<inputs, fs, tmp_name, csv_path, components, locals, calls,
                   enrichment, rendered, raised, outcome, runs>>

(* st.info(...); if not industry_research: industry_research =             *)
(* IndustryResearch(company_trends=[], ..., competitive_landscape=[])      *)
PrepareResearch ==
    /\ pc = "prepare"
    /\ shown' = Append(shown, Msg("info", "Generating executive summary..."))
    /\ IF ~TruthyObj(industry_research)
         THEN /\ industry_research' = EmptyResearch
              /\ calls' = Append(calls, [op |-> "IndustryResearch", result |-> "returned"])
         ELSE UNCHANGED <<industry_research, calls>>
    /\ pc' = "generate"
    /\ UNCHANGED <<inputs, fs, tmp_name, csv_path, components, sales_data,
                   executive_report, enrichment, rendered, raised, outcome,
                   runs>>

\* variant: a synthesis error is recorded but the run goes on to render
GenerateReport_ContinuesOnError ==
    /\ pc = "generate"
    /\ \/ /\ executive_report' \in Reports
          /\ calls' = Append(calls, [op |-> "generate_executive_report",
                                     company |-> COMPANY_NAME,
                                     role |-> executive_role,
                                     sales |-> sales_data,
                                     research |-> industry_research,
                                     result |-> "returned"])
          /\ UNCHANGED raised
       \/ /\ \E e \in ErrMsgs :
                raised' = [at |-> "generate_executive_report", msg |-> e]
          /\ calls' = Append(calls, [op |-> "generate_executive_report",
                                     company |-> COMPANY_NAME,
                                     role |-> executive_role,
                                     sales |-> sales_data,
                                     research |-> industry_research,
                                     result |-> "raised"])
          /\ UNCHANGED executive_report
    /\ pc' = "show_report"
    /\ UNCHANGED <<inputs, fs, tmp_name, csv_path, components, sales_data,
                   industry_research, shown, enrichment, rendered, outcome,
                   runs>>

(* executive_report = report_generator.generate_executive_report(          *)
(*     COMPANY_NAME, executive_role, sales_data, industry_research)        *)
GenerateReport ==
    /\ pc = "generate"
    /\ \/ /\ executive_report' \in Reports
          /\ calls' = Append(calls, [op |-> "generate_executive_report",
                                     company |-> COMPANY_NAME,
                                     role |-> executive_role,
                                     sales |-> sales_data,
                                     research |-> industry_research,
                                     result |-> "returned"])
          /\ pc' = "show_report"
          /\ UNCHANGED raised
       \/ /\ \E e \in ErrMsgs : Raise("generate_executive_report", e)
          /\ calls' = Append(calls, [op |-> "generate_executive_report",
                                     company |-> COMPANY_NAME,
                                     role |-> executive_role,
                                     sales |-> sales_data,
                                     research |-> industry_research,
                                     result |-> "raised"])
          /\ UNCHANGED executive_report
    /\ UNCHANGED <<inputs, fs, tmp_name, csv_path, components, sales_data,
                   industry_research, shown, enrichment, rendered, outcome,
                   runs>>

(* display_executive_report(executive_report, executive_role) *)
DisplayExecutiveReport ==
    /\ pc = "show_report"
    /\ \/ /\ rendered' = [rendered EXCEPT !.report = "full"]
          /\ calls' = Append(calls, [op |-> "display_executive_report", result |-> "returned"])
          /\ pc' = "cleanup"
          /\ UNCHANGED raised
       \/ /\ \E part \in {"none", "partial"} :
                rendered' = [rendered EXCEPT !.report = part]
          /\ calls' = Append(calls, [op |-> "display_executive_report", result |-> "raised"])
          /\ \E e \in ErrMsgs : Raise("display_executive_report", e)
    /\ UNCHANGED <<inputs, fs, tmp_name, csv_path, components, locals, shown,
                   enrichment, outcome, runs>>

(* os.unlink(csv_path); st.success("Executive report generated             *)
(* successfully!")                                                         *)
CleanupAndSucceed ==
    /\ pc = "cleanup"
    /\ \/ /\ fs' = fs \ {csv_path}
          /\ shown' = Append(shown, Msg("success",
                         "Executive report generated successfully!"))
          /\ pc' = "done"
          /\ outcome' = "success"
          /\ UNCHANGED raised
       \/ /\ \E e \in ErrMsgs : Raise("unlink", e)
          /\ UNCHANGED <<fs, shown, outcome>>
    /\ UNCHANGED <<inputs, tmp_name, csv_path, components, locals, calls, enrichment,
                   rendered, runs>>

(* except Exception as e: st.error(f"Error generating report: {str(e)}")   *)
(*     if 'csv_path' in locals(): try: os.unlink(csv_path) except: pass    *)
HandleException ==
    /\ pc = "except"
    /\ shown' = Append(shown, Msg("error", ErrorText(raised.msg)))
    /\ IF csv_path # NoPath
         THEN \/ fs' = fs \ {csv_path}
              \/ fs' = fs
         ELSE fs' = fs
    /\ pc' = "done"
    /\ outcome' = "error"
    /\ UNCHANGED <<inputs, tmp_name, csv_path, components, locals, calls, enrichment,
                   rendered, raised, runs>>

(* the next interaction reruns the script from the top; only the disk      *)
(* outlives a run                                                          *)
Rerun ==
    /\ pc = "done"
    /\ runs < MaxRuns
    /\ runs' = runs + 1
    /\ generate_button' \in BOOLEAN
    /\ executive_role' \in executive_roles
    /\ openai_key' \in OpenAIKeys
    /\ tavily_key' \in TavilyKeys
    /\ uploaded_file' \in UploadedFiles
    /\ pc' = "button"
    /\ tmp_name' = NoPath
    /\ csv_path' = NoPath
    /\ components' = {}
    /\ sales_data' = None
    /\ industry_research' = None
    /\ executive_report' = None
    /\ shown' = <<>>
    /\ calls' = <<>>
    /\ enrichment' = "not_started"
    /\ rendered' = NothingRendered
    /\ raised' = None
    /\ outcome' = "running"
    /\ UNCHANGED fs

Next ==
    \/ CheckButton
    \/ ValidateInputs
    \/ CreateTempFile
    \/ WriteUpload
    \/ InitComponents
    \/ ProcessCsv
    \/ DisplaySalesSummary
    \/ SkipResearch
    \/ ConstructSearchTool
    \/ SearchCompanyTrends
    \/ PrepareResearch
    \/ GenerateReport
    \/ DisplayExecutiveReport
    \/ CleanupAndSucceed
    \/ HandleException
    \/ Rerun

Spec == Init /\ [][Next]_vars

TypeOK ==
    /\ pc \in {"button", "validate", "tmpfile", "write", "init", "process",
               "show_summary", "enrich", "search", "prepare", "generate",
               "show_report", "cleanup", "except", "done"}
    /\ outcome \in {"running", "idle", "rejected", "success", "error"}
    /\ enrichment \in {"not_started", "skipped", "returned", "failed"}
    /\ fs \subseteq 1..MaxRuns
    /\ runs \in 1..MaxRuns

---------------------------------------------------------------------------
(* Helpers for the properties *)
Ops(op) == {i \in 1..Len(calls) : calls[i].op = op}
Called(op) == Ops(op) # {}
Returned(op) == \E i \in Ops(op) : calls[i].result = "returned"
Threw(op) == \E i \in Ops(op) : calls[i].result = "raised"
Kinds(kind) == {k \in 1..Len(shown) : shown[k].kind = kind}
SuccessShown ==
    \E k \in 1..Len(shown) :
        shown[k] = Msg("success", "Executive report generated successfully!")
RaisedAt(step) == raised # None /\ raised.at = step

\* C1: the stages run in the order aggregation -> enrichment -> synthesis:
\* generate_executive_report is only invoked after process_csv_data returned
\* and after the enrichment stage ended (returned, failed or skipped); the
\* search is only invoked after process_csv_data returned; and no aggregation
\* or enrichment call follows the synthesis call in the same request.
C1_StagesInOrder ==
    /\ \A i \in Ops("generate_executive_report") :
          /\ \E j \in 1..(i - 1) : /\ calls[j].op = "process_csv_data"
                                   /\ calls[j].result = "returned"
          /\ enrichment \in {"skipped", "returned", "failed"}
          /\ \A j \in (i + 1)..Len(calls) :
                calls[j].op \notin {"process_csv_data", "search_company_trends",
                                    "IndustryResearch"}
    /\ \A i \in Ops("search_company_trends") :
          \E j \in 1..(i - 1) : /\ calls[j].op = "process_csv_data"
                                /\ calls[j].result = "returned"
    /\ (pc \in {"generate", "show_report", "cleanup"} \/ outcome = "success")
          => enrichment \in {"skipped", "returned", "failed"}

C1_Witness ==
    /\ Returned("process_csv_data")
    /\ Returned("search_company_trends")
    /\ Returned("generate_executive_report")
    /\ outcome = "success"

\* C2: when the Tavily key is absent, or building the search tool or the
\* search raises, the request still invokes generate_executive_report, and
\* it succeeds whenever that synthesis call succeeds.
C2_EnrichmentNeverAborts ==
    (pc = "done" /\ enrichment \in {"skipped", "failed"})
        => /\ Called("generate_executive_report")
           /\ Returned("generate_executive_report") => outcome = "success"

\* C3: the research argument of generate_executive_report is never None: it
\* is an IndustryResearch value; it is the all-empty bundle when enrichment
\* was skipped or raised; and it is the bundle the search returned when the
\* search returned one.
C3_ResearchNeverNone ==
    \A i \in Ops("generate_executive_report") :
        /\ calls[i].research \in Bundles
        /\ enrichment \in {"skipped", "failed"}
              => /\ calls[i].research.company_trends = <<>>
                 /\ calls[i].research.product_trends = <<>>
                 /\ calls[i].research.industry_news = <<>>
                 /\ calls[i].research.competitive_landscape = <<>>
        /\ \A j \in Ops("search_company_trends") :
              (calls[j].result = "returned" /\ calls[j].value \in Bundles)
                  => calls[i].research = calls[j].value

C3_Witness ==
    /\ enrichment = "failed"
    /\ Threw("search_company_trends")
    /\ Called("generate_executive_report")

\* C4: a request that ends in failure has rendered neither the sales summary
\* nor the executive report, and a rendered result implies success.
C4_Atomic ==
    pc = "done"
        => /\ outcome = "error" => rendered = NothingRendered
           /\ rendered # NothingRendered => outcome = "success"

\* C5 (as stated): when process_csv_data raises, neither the search nor the
\* synthesis is invoked, nothing is rendered, and the message shown is the
\* error's own message unchanged.
C5_SurfacedVerbatim ==
    (pc = "done" /\ RaisedAt("process_csv_data"))
        => /\ ~Called("search_company_trends")
           /\ ~Called("generate_executive_report")
           /\ ~Called("display_sales_summary")
           /\ ~Called("display_executive_report")
           /\ rendered = NothingRendered
           /\ outcome = "error"
           /\ shown[Len(shown)] = Msg("error", raised.msg)

\* C5 (amended): when process_csv_data raises, the request aborts with
\* neither the search nor the synthesis invoked and nothing rendered, and the
\* message shown is "Error generating report: " followed by the error's own
\* message unchanged.
C5_SurfacedWithPrefix ==
    RaisedAt("process_csv_data")
        => /\ ~Called("search_company_trends")
           /\ ~Called("generate_executive_report")
           /\ ~Called("display_sales_summary")
           /\ ~Called("display_executive_report")
           /\ rendered = NothingRendered
           /\ pc \in {"except", "done"}
           /\ pc = "done"
                => /\ outcome = "error"
                   /\ Kinds("error") = {Len(shown)}
                   /\ shown[Len(shown)].text
                          = "Error generating report: " \o raised.msg

C5_Witness ==
    /\ pc = "done"
    /\ RaisedAt("process_csv_data")
    /\ Threw("process_csv_data")

\* C6: when generate_executive_report raises, the request aborts:
\* display_executive_report is never called, no part of the report is
\* rendered, the success message is never shown, and an error message is
\* shown instead.
C6_SynthesisFailureFatal ==
    Threw("generate_executive_report")
        => /\ ~Called("display_executive_report")
           /\ rendered.report = "none"
           /\ ~SuccessShown
           /\ pc \in {"except", "done"}
           /\ pc = "done"
                => /\ outcome = "error"
                   /\ shown[Len(shown)].kind = "error"

C6_Witness ==
    /\ pc = "done"
    /\ Threw("generate_executive_report")
    /\ outcome = "error"

\* C7: only a failure of process_csv_data or of generate_executive_report
\* ends the request in the error state; a failure at any other step of
\* main() does not.
C7_OnlyStageErrorsFatal ==
    outcome = "error"
        => raised.at \in {"process_csv_data", "generate_executive_report"}

\* C8: whenever the empty IndustryResearch is substituted, a warning has
\* been shown earlier in the same request.
C8_FallbackWarned ==
    Called("IndustryResearch") => Kinds("warning") # {}

\* C9: by the time the request ends, the temp file main() created for the
\* upload has been deleted.
C9_TempFileDeleted ==
    pc = "done" => tmp_name \notin fs

\* C10: with the button pressed and the OpenAI key empty or no file
\* uploaded, main() shows one error and returns without creating a temp
\* file and without building or calling any component, the key check coming
\* first; with the button not pressed nothing runs at all.
C10_InputGating ==
    /\ (generate_button /\ (openai_key = "" \/ uploaded_file = None))
          => /\ tmp_name = NoPath
             /\ csv_path = NoPath
             /\ components = {}
             /\ calls = <<>>
             /\ rendered = NothingRendered
             /\ pc \in {"button", "validate", "done"}
             /\ pc = "done"
                  => /\ outcome = "rejected"
                     /\ shown = <<Msg("error",
                                  IF openai_key = ""
                                    THEN "Please provide OpenAI API key"
                                    ELSE "Please upload a CSV file")>>
    /\ ~generate_button
          => /\ tmp_name = NoPath
             /\ components = {}
             /\ calls = <<>>
             /\ shown = <<>>
             /\ rendered = NothingRendered
             /\ pc \in {"button", "done"}
             /\ pc = "done" => outcome = "idle"

C10_Witness ==
    /\ pc = "done"
    /\ generate_button
    /\ openai_key = ""
    /\ uploaded_file = None
    /\ outcome = "rejected"

====
